---- MODULE Spec2Model ----
(***************************************************************************)
(* State machine of the App component of src/src/App.tsx: the counter, the *)
(* todo list, the input box, the two useMemo caches, and the handlers      *)
(* increment, addTodo, toggleTodo, deleteTodo and the input's onChange.    *)
(* Every handler step includes the re-render that follows its state        *)
(* update, i.e. the dependency check of both useMemo hooks.                *)
(***************************************************************************)
EXTENDS Integers, Sequences, FiniteSets, TLC

\* ---------------------------------------------------------------- bounds
\* Date.now() takes the values 0..MaxClock.
MaxClock == 1
\* At most MaxRef calls of setTodos (each allocates a new array).
MaxRef == 3
\* The counter is incremented at most MaxCount times.
MaxCount == 1

\* Strings are sequences of characters; the texts a user may type or paste.
InputTexts ==
    { <<>>, <<" ", "\t">>, <<"a">>, <<" ", "a", " ">> }

\* The ids the toggle and delete handlers may be called with.
Ids == 0..MaxClock

VARIABLES
    count,                    \* useState(0)
    todos,                    \* useState<Todo[]>([]): sequence of records
    inputValue,               \* useState('')
    clock,                    \* the value Date.now() returns
    todosRef,                 \* identity of the array object held in todos
    memoDeps,                 \* the [todos] dependency the memo caches hold
    expensiveTodoComputation, \* cached value of the first useMemo
    completedTodosCount,      \* cached value of the second useMemo
    logCount,                 \* number of runs of the first useMemo's factory
    nAdds,                    \* history: accepted addTodo calls
    nDels,                    \* history: deleteTodo calls whose id was present
    born,                     \* history: born[i] = serial number of the add of todos[i]
    last,                     \* history: the last handler call and todos before it
    prev                      \* history: the handler call before last

vars == << count, todos, inputValue, clock, todosRef, memoDeps,
           expensiveTodoComputation, completedTodosCount, logCount,
           nAdds, nDels, born, last, prev >>

\* ------------------------------------------------------- pure functions

\* String.prototype.trim: whitespace is stripped from both ends.
IsWhitespace(c) == c \in {" ", "\t"}

RECURSIVE trimStart(_)
trimStart(s) ==
    IF s = <<>> THEN s
    ELSE IF IsWhitespace(Head(s)) THEN trimStart(Tail(s)) ELSE s

RECURSIVE trimEnd(_)
trimEnd(s) ==
    IF s = <<>> THEN s
    ELSE IF IsWhitespace(s[Len(s)]) THEN trimEnd(SubSeq(s, 1, Len(s) - 1)) ELSE s

trim(s) == trimEnd(trimStart(s))

\* Variants of the guard: the test without trim, and no test at all.
addTodoGuardNoTrim(v) == v # <<>>

addTodoGuardAlways(v) == TRUE

\* if (inputValue.trim()): a string is truthy iff it is not empty.
addTodoGuard(v) == trim(v) # <<>>

\* const newTodo = { id: Date.now(), text: inputValue, completed: false }
newTodoOf(now, v) == [id |-> now, text |-> v, completed |-> FALSE]

\* Variant: [newTodo, ...prev]
prependTodo(prv, newTodo) == <<newTodo>> \o prv

\* [...prev, newTodo]
appendTodo(prv, newTodo) == Append(prv, newTodo)

\* Variant: completed: true instead of !todo.completed
markDone(todo, id) ==
    IF todo.id = id THEN [todo EXCEPT !.completed = TRUE] ELSE todo

\* todo.id === id ? { ...todo, completed: !todo.completed } : todo
toggleOne(todo, id) ==
    IF todo.id = id THEN [todo EXCEPT !.completed = ~todo.completed] ELSE todo

\* prev.map(todo => ...)
toggleMap(prv, id) == [i \in 1..Len(prv) |-> toggleOne(prv[i], id)]

\* the indices prev.filter(todo => todo.id !== id) keeps
keptIndices(prv, id) == {i \in 1..Len(prv) : prv[i].id # id}

\* the elements of s at the indices in keep, in order
RECURSIVE selectAt(_, _, _)
selectAt(s, keep, i) ==
    IF i > Len(s) THEN <<>>
    ELSE IF i \in keep THEN <<s[i]>> \o selectAt(s, keep, i + 1)
    ELSE selectAt(s, keep, i + 1)

\* prev.filter(todo => todo.id !== id)
deleteFilter(prv, id) == selectAt(prv, keptIndices(prv, id), 1)

\* todos.length * 100
expensiveOf(t) == Len(t) * 100

\* todos.filter(todo => todo.completed).length
completedOf(t) == Cardinality({i \in 1..Len(t) : t[i].completed})

\* Variants: useMemo without a dependency array, and with an empty one.
depsAlwaysChanged(oldDep, newDep) == TRUE

depsNeverChanged(oldDep, newDep) == FALSE

\* useMemo compares each dependency with Object.is: the factory runs again
\* iff the array object in todos is not the one the cache was computed from.
depsChanged(oldDep, newDep) == oldDep # newDep

\* ------------------------------------------------------------- render
\* The render after a handler: both useMemo hooks see the array newRef
\* holding newTodos.
Render(newTodos, newRef) ==
    IF depsChanged(memoDeps, newRef)
    THEN /\ memoDeps' = newRef
         /\ expensiveTodoComputation' = expensiveOf(newTodos)
         /\ completedTodosCount' = completedOf(newTodos)
         /\ logCount' = logCount + 1
    ELSE UNCHANGED << memoDeps, expensiveTodoComputation,
                      completedTodosCount, logCount >>

Record(op, id) ==
    /\ last' = [op |-> op, id |-> id, before |-> todos]
    /\ prev' = last

NoCall == [op |-> "none", id |-> -1, before |-> <<>>]

\* ---------------------------------------------------------------- Init
Init ==
    /\ count = 0
    /\ todos = <<>>
    /\ inputValue = <<>>
    /\ clock = 0
    /\ todosRef = 0
    /\ memoDeps = 0
    /\ expensiveTodoComputation = expensiveOf(<<>>)
    /\ completedTodosCount = completedOf(<<>>)
    /\ logCount = 1
    /\ nAdds = 0
    /\ nDels = 0
    /\ born = <<>>
    /\ last = NoCall
    /\ prev = NoCall

\* ------------------------------------------------------------- actions

\* Date.now() advances between events.
Tick ==
    /\ clock < MaxClock
    /\ clock' = clock + 1
    /\ UNCHANGED << count, todos, inputValue, todosRef, memoDeps,
                    expensiveTodoComputation, completedTodosCount, logCount,
                    nAdds, nDels, born, last, prev >>

increment ==
    /\ count < MaxCount
    /\ count' = count + 1
    /\ Render(todos, todosRef)
    /\ Record("increment", -1)
    /\ UNCHANGED << todos, inputValue, clock, todosRef, nAdds, nDels, born >>

\* onChange={(e) => setInputValue(e.target.value)}
setInputValue(v) ==
    /\ inputValue' = v
    /\ Render(todos, todosRef)
    /\ Record("setInputValue", -1)
    /\ UNCHANGED << count, todos, clock, todosRef, nAdds, nDels, born >>

addTodo ==
    IF addTodoGuard(inputValue)
    THEN /\ todosRef < MaxRef
         /\ todos' = appendTodo(todos, newTodoOf(clock, inputValue))
         /\ todosRef' = todosRef + 1
         /\ inputValue' = <<>>
         /\ Render(todos', todosRef')
         /\ nAdds' = nAdds + 1
         /\ born' = appendTodo(born, nAdds + 1)
         /\ Record("addTodo", -1)
         /\ UNCHANGED << count, clock, nDels >>
    ELSE /\ Record("addTodoRejected", -1)
         /\ UNCHANGED << count, todos, inputValue, clock, todosRef, memoDeps,
                         expensiveTodoComputation, completedTodosCount,
                         logCount, nAdds, nDels, born >>

toggleTodo(id) ==
    /\ todosRef < MaxRef
    /\ todos' = toggleMap(todos, id)
    /\ todosRef' = todosRef + 1
    /\ Render(todos', todosRef')
    /\ Record("toggleTodo", id)
    /\ UNCHANGED << count, inputValue, clock, nAdds, nDels, born >>

deleteTodo(id) ==
    /\ todosRef < MaxRef
    /\ todos' = deleteFilter(todos, id)
    /\ todosRef' = todosRef + 1
    /\ Render(todos', todosRef')
    /\ nDels' = IF \E i \in 1..Len(todos) : todos[i].id = id
                THEN nDels + 1 ELSE nDels
    /\ born' = selectAt(born, keptIndices(todos, id), 1)
    /\ Record("deleteTodo", id)
    /\ UNCHANGED << count, inputValue, clock, nAdds >>

Next ==
    \/ Tick
    \/ increment
    \/ \E v \in InputTexts : setInputValue(v)
    \/ addTodo
    \/ \E id \in Ids : toggleTodo(id)
    \/ \E id \in Ids : deleteTodo(id)

Spec == Init /\ [][Next]_vars

\* ------------------------------------------------------ stated properties

HasId(t, id) == \E i \in 1..Len(t) : t[i].id = id

\* t without its k-th element
RemoveAt(t, k) == SubSeq(t, 1, k - 1) \o SubSeq(t, k + 1, Len(t))

RECURSIVE CountDone(_)
CountDone(t) ==
    IF t = <<>> THEN 0
    ELSE (IF Head(t).completed THEN 1 ELSE 0) + CountDone(Tail(t))

textsOf(t) == [i \in 1..Len(t) |-> t[i].text]

RECURSIVE IsSubSeq(_, _)
IsSubSeq(a, b) ==
    IF a = <<>> THEN TRUE
    ELSE IF b = <<>> THEN FALSE
    ELSE IF Head(a) = Head(b) THEN IsSubSeq(Tail(a), Tail(b))
    ELSE IsSubSeq(a, Tail(b))

IsIncreasing(s) == \A i, j \in 1..Len(s) : i < j => s[i] < s[j]

IsBlank(v) == trim(v) = <<>>

RejectedAdd == addTodo /\ IsBlank(inputValue)

AcceptedAdd == addTodo /\ ~IsBlank(inputValue)

\* C1: in every reachable state no two records of todos have the same id,
\* also when two accepted addTodo calls read the same Date.now() value.
C1_UniqueIds ==
    \A i, j \in 1..Len(todos) : i # j => todos[i].id # todos[j].id

\* C2: the length of todos equals the number of accepted addTodo calls minus
\* the number of deleteTodo calls whose id matched a record present.
C2_TotalCount == Len(todos) = nAdds - nDels

\* C3: toggleTodo(id) with the id present keeps length and order, inverts the
\* completed flag of exactly one record and leaves every other record as it
\* was; with the id absent the contents are the same; count and inputValue
\* are unchanged in both cases.
C3_ToggleStep(id) ==
    /\ count' = count
    /\ inputValue' = inputValue
    /\ IF HasId(todos, id)
       THEN /\ Len(todos') = Len(todos)
            /\ \E k \in 1..Len(todos) :
                 /\ todos[k].id = id
                 /\ todos'[k] = [todos[k] EXCEPT !.completed = ~todos[k].completed]
                 /\ \A j \in (1..Len(todos)) \ {k} : todos'[j] = todos[j]
       ELSE todos' = todos

C3_ToggleExactlyOne ==
    [][\A id \in Ids : toggleTodo(id) => C3_ToggleStep(id)]_vars

\* C4: deleteTodo(id) with the id present removes exactly one record, the
\* one with that id, and keeps the others unchanged in their order; with the
\* id absent (also on the empty list) the contents are unchanged.
C4_DeleteStep(id) ==
    IF HasId(todos, id)
    THEN \E k \in 1..Len(todos) :
           /\ todos[k].id = id
           /\ todos' = RemoveAt(todos, k)
    ELSE todos' = todos

C4_DeleteExactlyOne ==
    [][\A id \in Ids : deleteTodo(id) => C4_DeleteStep(id)]_vars

\* C5: addTodo with an empty or whitespace-only inputValue changes neither
\* todos (length and contents), nor count, nor inputValue, nor the array
\* object and the cached views.
C5_RejectedAddIsNoOp ==
    [][RejectedAdd =>
         UNCHANGED << count, todos, inputValue, todosRef, memoDeps,
                      expensiveTodoComputation, completedTodosCount,
                      logCount >>]_vars

C5_Witness ==
    /\ last.op = "addTodoRejected"
    /\ inputValue # <<>>
    /\ Len(todos) >= 1
    /\ todos = last.before

\* C6: after every step every stored text is non-empty after trim, although
\* the raw input is what is stored, and no step changes a stored text: the
\* texts after a step that adds a record extend the texts before it, and the
\* texts after any other step are a subsequence of the texts before it.
C6_TextStep ==
    /\ \A i \in 1..Len(todos') : trim(todos'[i].text) # <<>>
    /\ IF Len(todos') > Len(todos)
       THEN SubSeq(textsOf(todos'), 1, Len(todos)) = textsOf(todos)
       ELSE IsSubSeq(textsOf(todos'), textsOf(todos))

C6_TextNeverBlank == [][C6_TextStep]_vars

C6_Witness ==
    /\ last.op = "toggleTodo"
    /\ \E i \in 1..Len(todos) :
         /\ todos[i].text # trim(todos[i].text)
         /\ todos[i].id = last.id
         /\ todos[i].completed

C8_MemoStep ==
    /\ (increment \/ (\E v \in InputTexts : setInputValue(v)) \/ RejectedAdd)
           => logCount' = logCount
    /\ (todosRef' = todosRef) => (logCount' = logCount)
    /\ expensiveTodoComputation' = Len(todos') * 100
    /\ completedTodosCount' = CountDone(todos')

C8_MemoOnlyOnNewTodos == [][C8_MemoStep]_vars

C8_Witness ==
    /\ last.op = "increment"
    /\ prev.op = "toggleTodo"
    /\ Len(todos) >= 1
    /\ completedTodosCount = 1
    /\ logCount = todosRef + 1

\* C9: in every reachable state the completed count shown is between 0 and
\* the length of todos, and the computation result shown is the length of
\* todos times 100.
C9_DerivedViews ==
    /\ 0 <= completedTodosCount
    /\ completedTodosCount <= Len(todos)
    /\ expensiveTodoComputation = Len(todos) * 100

C9_Witness ==
    /\ Len(todos) >= 2
    /\ completedTodosCount = 1
    /\ expensiveTodoComputation = 200

\* C10: an accepted addTodo makes todos one longer, the new last record has
\* completed = FALSE and the records before it are the old ones in place;
\* and after every step the surviving records are in the order of their
\* addition (their add serial numbers increase along todos).
C10_AddStep ==
    /\ AcceptedAdd =>
         /\ Len(todos') = Len(todos) + 1
         /\ todos'[Len(todos')].completed = FALSE
         /\ SubSeq(todos', 1, Len(todos)) = todos
    /\ Len(born') = Len(todos')
    /\ IsIncreasing(born')

====
